---- MODULE Spec2Model ----
(***************************************************************************)
(* Model of internal/wasm_guest.go: the WasmGuest bridge, which lends waPC *)
(* instances from a fixed pool to concurrent InvokeWasmOperation calls and *)
(* shuts pool and module down in Close.                                    *)
(*                                                                         *)
(* The pool itself (wapc.Pool) is a collaborator whose code is not part of *)
(* the source file; its operations (PoolAcquirable, PoolTake,              *)
(* PoolReturn, PoolReturnErr, PoolClose) follow the Instance Pool contract *)
(* of the specification, section 4.2 and section 7.                        *)
(***************************************************************************)
EXTENDS Integers, FiniteSets, Sequences, TLC

\* Pool capacity. The source builds the pool with 10 instances
\* (wasm_guest.go:63); the model scales it down.
Capacity == 2

\* How many InvokeWasmOperation calls are made in all.
MaxCalls == 3

\* How many times Close is called at most.
MaxCloses == 2

\* One caller more than there are instances, so that the pool can run dry.
Callers == 1 .. (Capacity + 1)

Instances == 1 .. Capacity

\* Operation names: one the guest knows, one it does not.
Operations == {"echo", "nosuchop"}

KnownOperations == {"echo"}

Payloads == {"ping"}

\* The nil value of a result or an error.
Nil == "nil"

\* The nil instance reference.
NoInstance == 0

TimeoutError == "TimeoutError"

ClosedError == "ClosedError"

ReleaseError == "ReleaseError"

\* What NewWasmGuest returns as its error: that of ioutil.ReadFile, of
\* engine.New or of wapc.NewPool.
ReadError == "ReadError"

LoadError == "LoadError"

PoolInitError == "PoolInitError"

\* The error the guest execution produces for an operation.
InvocationError(operation) == "InvocationError: " \o operation

IsInvocationError(e) == e \in {InvocationError(o) : o \in Operations}

VARIABLES
    wapcPool,      \* the pool: available set, checked-out set, closed flag, teardown counts
    moduleClosed,  \* how many times the loaded module has been closed
    pc,            \* per caller: position in InvokeWasmOperation
    operation,     \* per caller: the operation argument of the current call
    payload,       \* per caller: the payload argument of the current call
    wapcInstance,  \* per caller: the local wapcInstance
    result,        \* per caller: the named result `result`
    err,           \* per caller: the named result `err`
    guest,         \* per caller: how the guest execution of the current call ended
    returns,       \* per caller: Return calls made by the current call
    returnErr,     \* per caller: what the Return call of the current call gave
    afterClose,    \* per caller: the current call started after a Close had completed
    ncalls,        \* calls started so far
    closePc,       \* position of the thread running Close
    ncloses,       \* completed Close calls
    ctor,          \* NewWasmGuest: "start", then "ok" (bridge returned) or "failed" (nil)
    ctorErr,       \* the error NewWasmGuest returned
    wapcModule,    \* "none", or "loaded" once engine.New has given a module
    instantiated   \* the instances the pool build has created

vars == <<wapcPool, moduleClosed, pc, operation, payload, wapcInstance, result, err,
          guest, returns, returnErr, afterClose, ncalls, closePc, ncloses,
          ctor, ctorErr, wapcModule, instantiated>>

callVars == <<operation, payload, afterClose, ncalls>>

closeVars == <<moduleClosed, closePc, ncloses>>

ctorVars == <<ctor, ctorErr, wapcModule, instantiated>>

----------------------------------------------------------------------------
(* The Instance Pool *)

\* A pool of all instances, eagerly created and all available.
NewPool ==
    [avail |-> Instances, out |-> {}, closed |-> FALSE,
     torn |-> [i \in Instances |-> 0]]

\* No pool: what the bridge holds before and without a successful build.
NoPool ==
    [avail |-> {}, out |-> {}, closed |-> FALSE,
     torn |-> [i \in Instances |-> 0]]

\* A pool build in which only the first n instantiations succeed: the whole
\* build fails, the instances already created are released and no pool is
\* retained.
FailedPool(n) ==
    [NoPool EXCEPT !.torn = [i \in Instances |-> IF i <= n THEN 1 ELSE 0]]

\* acquire fails at once on a closed pool.
PoolIsClosed(p) == p.closed

\* acquire can hand out an instance.
PoolAcquirable(p) == ~p.closed /\ p.avail # {}

\* acquire hands out instance i.
PoolTake(p, i) == [p EXCEPT !.avail = @ \ {i}, !.out = @ \cup {i}]

\* What release(i) reports.
PoolReturnErr(p, i) ==
    IF i \notin p.out THEN ReleaseError
    ELSE IF p.closed THEN ClosedError
    ELSE Nil

\* The pool after release(i): a release of an instance that is not checked
\* out changes nothing, a release to a closed pool is a teardown, any other
\* puts the instance back.
PoolReturn(p, i) ==
    IF i \notin p.out THEN p
    ELSE IF p.closed
         THEN [p EXCEPT !.out = @ \ {i}, !.torn[i] = @ + 1]
         ELSE [p EXCEPT !.out = @ \ {i}, !.avail = @ \cup {i}]

\* The pool after close(): the available instances are torn down at once.
PoolClose(p) ==
    [p EXCEPT !.closed = TRUE,
              !.avail = {},
              !.torn = [i \in Instances |->
                           IF i \in p.avail THEN p.torn[i] + 1 ELSE p.torn[i]]]

----------------------------------------------------------------------------
(* NewWasmGuest *)

Init ==
    /\ ctor = "start"
    /\ ctorErr = Nil
    /\ wapcModule = "none"
    /\ instantiated = {}
    /\ wapcPool = NoPool
    /\ moduleClosed = 0
    /\ pc = [c \in Callers |-> "idle"]
    /\ operation = [c \in Callers |-> Nil]
    /\ payload = [c \in Callers |-> Nil]
    /\ wapcInstance = [c \in Callers |-> NoInstance]
    /\ result = [c \in Callers |-> Nil]
    /\ err = [c \in Callers |-> Nil]
    /\ guest = [c \in Callers |-> "none"]
    /\ returns = [c \in Callers |-> 0]
    /\ returnErr = [c \in Callers |-> Nil]
    /\ afterClose = [c \in Callers |-> FALSE]
    /\ ncalls = 0
    /\ closePc = "idle"
    /\ ncloses = 0

\* NewWasmGuest(wasmFile, proxy): read the file, load the module, build the
\* pool; each failure returns nil and the error at once. built is the number
\* of instantiations that succeed in the pool build.
NewWasmGuest ==
    /\ ctor = "start"
    /\ \E readOk \in BOOLEAN, loadOk \in BOOLEAN, built \in 0 .. Capacity :
          IF ~readOk
          THEN /\ ctor' = "failed"
               /\ ctorErr' = ReadError
               /\ UNCHANGED <<wapcModule, instantiated, wapcPool>>
          ELSE IF ~loadOk
          THEN /\ ctor' = "failed"
               /\ ctorErr' = LoadError
               /\ UNCHANGED <<wapcModule, instantiated, wapcPool>>
          ELSE IF built < Capacity
          THEN /\ ctor' = "failed"
               /\ ctorErr' = PoolInitError
               /\ wapcModule' = "loaded"
               /\ instantiated' = 1 .. built
               /\ wapcPool' = FailedPool(built)
          ELSE /\ ctor' = "ok"
               /\ ctorErr' = Nil
               /\ wapcModule' = "loaded"
               /\ instantiated' = Instances
               /\ wapcPool' = NewPool
    /\ UNCHANGED <<pc, wapcInstance, result, err, guest, returns, returnErr,
                   callVars, closeVars>>

----------------------------------------------------------------------------
(* InvokeWasmOperation *)

\* A caller that is in no call enters InvokeWasmOperation(op, pl).
CallInvoke(c) ==
    /\ ctor = "ok"
    /\ pc[c] \in {"idle", "done"}
    /\ ncalls < MaxCalls
    /\ \E op \in Operations, pl \in Payloads :
          /\ operation' = [operation EXCEPT ![c] = op]
          /\ payload' = [payload EXCEPT ![c] = pl]
    /\ ncalls' = ncalls + 1
    /\ afterClose' = [afterClose EXCEPT ![c] = (ncloses > 0)]
    /\ pc' = [pc EXCEPT ![c] = "get"]
    /\ wapcInstance' = [wapcInstance EXCEPT ![c] = NoInstance]
    /\ result' = [result EXCEPT ![c] = Nil]
    /\ err' = [err EXCEPT ![c] = Nil]
    /\ guest' = [guest EXCEPT ![c] = "none"]
    /\ returns' = [returns EXCEPT ![c] = 0]
    /\ returnErr' = [returnErr EXCEPT ![c] = Nil]
    /\ UNCHANGED <<ctorVars, wapcPool, closeVars>>

\* GetInstance with the Return call made right after Get instead of deferred:
\* the instance is back in the pool while the call goes on to use it.
GetInstance_ReturnsAtOnce(c) ==
    /\ pc[c] = "get"
    /\ PoolAcquirable(wapcPool)
    /\ \E i \in wapcPool.avail :
          wapcInstance' = [wapcInstance EXCEPT ![c] = i]
    /\ err' = [err EXCEPT ![c] = Nil]
    /\ pc' = [pc EXCEPT ![c] = "invoke"]
    /\ UNCHANGED <<ctorVars, wapcPool, result, guest, returns, returnErr, callVars, closeVars>>

\* wg.wapcPool.Get gives an instance: the deferred return is registered.
GetInstance(c) ==
    /\ pc[c] = "get"
    /\ PoolAcquirable(wapcPool)
    /\ \E i \in wapcPool.avail :
          /\ wapcPool' = PoolTake(wapcPool, i)
          /\ wapcInstance' = [wapcInstance EXCEPT ![c] = i]
    /\ err' = [err EXCEPT ![c] = Nil]
    /\ pc' = [pc EXCEPT ![c] = "invoke"]
    /\ UNCHANGED <<ctorVars, result, guest, returns, returnErr, callVars, closeVars>>

\* GetFail with the deferred return registered before the error check: the
\* failed Get is followed by a Return of the nil instance.
GetFail_DeferFirst(c) ==
    /\ pc[c] = "get"
    /\ ~PoolAcquirable(wapcPool)
    /\ wapcPool' = PoolReturn(wapcPool, NoInstance)
    /\ err' = [err EXCEPT ![c] = PoolReturnErr(wapcPool, NoInstance)]
    /\ returnErr' = [returnErr EXCEPT ![c] = PoolReturnErr(wapcPool, NoInstance)]
    /\ returns' = [returns EXCEPT ![c] = @ + 1]
    /\ result' = [result EXCEPT ![c] = Nil]
    /\ pc' = [pc EXCEPT ![c] = "done"]
    /\ UNCHANGED <<ctorVars, wapcInstance, guest, callVars, closeVars>>

\* GetFail with a Get that has no timeout: only a closed pool ends the wait.
GetFail_NoTimeout(c) ==
    /\ pc[c] = "get"
    /\ PoolIsClosed(wapcPool)
    /\ err' = [err EXCEPT ![c] = ClosedError]
    /\ result' = [result EXCEPT ![c] = Nil]
    /\ pc' = [pc EXCEPT ![c] = "done"]
    /\ UNCHANGED <<ctorVars, wapcPool, wapcInstance, guest, returns, returnErr, callVars,
                   closeVars>>

\* wg.wapcPool.Get fails, at once on a closed pool and after the 10 ms
\* window on one with no instance left: return nil, err.
GetFail(c) ==
    /\ pc[c] = "get"
    /\ ~PoolAcquirable(wapcPool)
    /\ err' = [err EXCEPT ![c] = IF PoolIsClosed(wapcPool) THEN ClosedError
                                  ELSE TimeoutError]
    /\ result' = [result EXCEPT ![c] = Nil]
    /\ pc' = [pc EXCEPT ![c] = "done"]
    /\ UNCHANGED <<ctorVars, wapcPool, wapcInstance, guest, returns, returnErr, callVars,
                   closeVars>>

\* wapcInstance.Invoke runs the guest and the function reaches a return
\* statement, which sets the named results; the deferred function is next.
InvokeGuest(c) ==
    /\ pc[c] = "invoke"
    /\ \E ok \in BOOLEAN :
          /\ ok => operation[c] \in KnownOperations
          /\ guest' = [guest EXCEPT ![c] = IF ok THEN "ok" ELSE "failed"]
          /\ result' = [result EXCEPT ![c] = IF ok THEN payload[c] ELSE Nil]
          /\ err' = [err EXCEPT ![c] = IF ok THEN Nil
                                        ELSE InvocationError(operation[c])]
    /\ pc' = [pc EXCEPT ![c] = "defer"]
    /\ UNCHANGED <<ctorVars, wapcPool, wapcInstance, returns, returnErr, callVars, closeVars>>

\* DeferredReturn with the Return call forgotten: the call ends and the
\* instance stays checked out.
DeferredReturn_NoReturn(c) ==
    /\ pc[c] = "defer"
    /\ wapcInstance' = [wapcInstance EXCEPT ![c] = NoInstance]
    /\ pc' = [pc EXCEPT ![c] = "done"]
    /\ UNCHANGED <<ctorVars, wapcPool, err, returnErr, returns, result, guest,
                   callVars, closeVars>>

\* DeferredReturn with the Return call on the success path only (no defer):
\* a failed guest execution leaves without returning the instance.
DeferredReturn_OnlyOnSuccess(c) ==
    /\ pc[c] = "defer"
    /\ IF guest[c] = "ok"
       THEN /\ wapcPool' = PoolReturn(wapcPool, wapcInstance[c])
            /\ err' = [err EXCEPT ![c] = PoolReturnErr(wapcPool, wapcInstance[c])]
            /\ returnErr' = [returnErr EXCEPT ![c] =
                                 PoolReturnErr(wapcPool, wapcInstance[c])]
            /\ returns' = [returns EXCEPT ![c] = @ + 1]
       ELSE UNCHANGED <<ctorVars, wapcPool, err, returnErr, returns>>
    /\ wapcInstance' = [wapcInstance EXCEPT ![c] = NoInstance]
    /\ pc' = [pc EXCEPT ![c] = "done"]
    /\ UNCHANGED <<ctorVars, result, guest, callVars, closeVars>>

\* The deferred function: err = wg.wapcPool.Return(wapcInstance), then the
\* call hands (result, err) to its caller and its local wapcInstance is gone.
DeferredReturn(c) ==
    /\ pc[c] = "defer"
    /\ wapcPool' = PoolReturn(wapcPool, wapcInstance[c])
    /\ err' = [err EXCEPT ![c] = PoolReturnErr(wapcPool, wapcInstance[c])]
    /\ returnErr' = [returnErr EXCEPT ![c] = PoolReturnErr(wapcPool, wapcInstance[c])]
    /\ returns' = [returns EXCEPT ![c] = @ + 1]
    /\ wapcInstance' = [wapcInstance EXCEPT ![c] = NoInstance]
    /\ pc' = [pc EXCEPT ![c] = "done"]
    /\ UNCHANGED <<ctorVars, result, guest, callVars, closeVars>>

----------------------------------------------------------------------------
(* Close *)

\* ClosePool with the pool's Close call left out.
ClosePool_SkipsPool ==
    /\ ctor = "ok"
    /\ closePc = "idle"
    /\ ncloses < MaxCloses
    /\ closePc' = "module"
    /\ UNCHANGED <<ctorVars, wapcPool, moduleClosed, ncloses, pc, wapcInstance, result, err,
                   guest, returns, returnErr, callVars>>

\* ClosePool with the two halves of Close in the wrong order: the module is
\* closed where the pool should be.
ClosePool_ModuleFirst ==
    /\ ctor = "ok"
    /\ closePc = "idle"
    /\ ncloses < MaxCloses
    /\ moduleClosed' = moduleClosed + 1
    /\ closePc' = "module"
    /\ UNCHANGED <<ctorVars, wapcPool, ncloses, pc, wapcInstance, result, err, guest,
                   returns, returnErr, callVars>>

\* wg.wapcPool.Close(...)
ClosePool ==
    /\ ctor = "ok"
    /\ closePc = "idle"
    /\ ncloses < MaxCloses
    /\ wapcPool' = PoolClose(wapcPool)
    /\ closePc' = "module"
    /\ UNCHANGED <<ctorVars, moduleClosed, ncloses, pc, wapcInstance, result, err, guest,
                   returns, returnErr, callVars>>

\* g.Close(wg.context)
CloseModule ==
    /\ closePc = "module"
    /\ moduleClosed' = moduleClosed + 1
    /\ ncloses' = ncloses + 1
    /\ closePc' = "idle"
    /\ UNCHANGED <<ctorVars, wapcPool, pc, wapcInstance, result, err, guest, returns,
                   returnErr, callVars>>

----------------------------------------------------------------------------

Next ==
    \/ NewWasmGuest
    \/ \E c \in Callers : CallInvoke(c)
    \/ \E c \in Callers : GetInstance(c)
    \/ \E c \in Callers : GetFail(c)
    \/ \E c \in Callers : InvokeGuest(c)
    \/ \E c \in Callers : DeferredReturn(c)
    \/ ClosePool
    \/ CloseModule

Spec == Init /\ [][Next]_vars

\* Get returns within its window: a caller in Get leaves it, with an instance
\* or with an error. Nothing makes a guest execution or a Close finish.
LiveSpec ==
    Spec /\ \A c \in Callers : WF_vars(GetInstance(c) \/ GetFail(c))

\* The scenario of a fast operation: every call names "echo", every guest
\* execution succeeds and finishes within the acquisition window, so that no
\* Get times out, and the bridge is not closed.
EchoCall(c) == CallInvoke(c) /\ operation'[c] = "echo"

EchoRuns(c) == InvokeGuest(c) /\ guest'[c] = "ok"

ScenarioNext ==
    \/ NewWasmGuest
    \/ \E c \in Callers : EchoCall(c)
    \/ \E c \in Callers : GetInstance(c)
    \/ \E c \in Callers : EchoRuns(c)
    \/ \E c \in Callers : DeferredReturn(c)

\* Get returns once an instance is there for the caller, a guest execution
\* finishes, a call that has finished its execution runs its deferred return.
ScenarioSpec ==
    /\ Init
    /\ [][ScenarioNext]_vars
    /\ \A c \in Callers :
          /\ WF_vars(GetInstance(c))
          /\ WF_vars(EchoRuns(c))
          /\ WF_vars(DeferredReturn(c))

\* A caller that is in no call enters InvokeWasmOperation, as often as it
\* likes: the count of calls stops one past MaxCalls and the calls go on.
RepeatCall(c) ==
    /\ ctor = "ok"
    /\ pc[c] \in {"idle", "done"}
    /\ \E op \in Operations, pl \in Payloads :
          /\ operation' = [operation EXCEPT ![c] = op]
          /\ payload' = [payload EXCEPT ![c] = pl]
    /\ ncalls' = IF ncalls <= MaxCalls THEN ncalls + 1 ELSE ncalls
    /\ afterClose' = [afterClose EXCEPT ![c] = (ncloses > 0)]
    /\ pc' = [pc EXCEPT ![c] = "get"]
    /\ wapcInstance' = [wapcInstance EXCEPT ![c] = NoInstance]
    /\ result' = [result EXCEPT ![c] = Nil]
    /\ err' = [err EXCEPT ![c] = Nil]
    /\ guest' = [guest EXCEPT ![c] = "none"]
    /\ returns' = [returns EXCEPT ![c] = 0]
    /\ returnErr' = [returnErr EXCEPT ![c] = Nil]
    /\ UNCHANGED <<ctorVars, wapcPool, closeVars>>

\* Callers that call again and again on a bridge that is not closed.
CyclingNext ==
    \/ NewWasmGuest
    \/ \E c \in Callers : RepeatCall(c)
    \/ \E c \in Callers : GetInstance(c)
    \/ \E c \in Callers : GetFail(c)
    \/ \E c \in Callers : InvokeGuest(c)
    \/ \E c \in Callers : DeferredReturn(c)

\* Get returns within its window, every guest execution finishes and every
\* call that has finished its execution runs its deferred return. Nothing
\* says which of several waiting callers a released instance goes to.
CyclingSpec ==
    /\ Init
    /\ [][CyclingNext]_vars
    /\ \A c \in Callers :
          /\ WF_vars(GetInstance(c) \/ GetFail(c))
          /\ WF_vars(InvokeGuest(c))
          /\ WF_vars(DeferredReturn(c))

----------------------------------------------------------------------------
(* Properties *)

\* The caller holds an instance: acquired, and the deferred return not yet run.
Holding(c) == pc[c] \in {"invoke", "defer"}

\* The current call of the caller has acquired an instance.
Acquired(c) == Holding(c) \/ (pc[c] = "done" /\ guest[c] # "none")

TypeOK ==
    /\ wapcPool.avail \subseteq Instances
    /\ wapcPool.out \subseteq Instances
    /\ wapcPool.closed \in BOOLEAN
    /\ pc \in [Callers -> {"idle", "get", "invoke", "defer", "done"}]
    /\ wapcInstance \in [Callers -> Instances \cup {NoInstance}]
    /\ guest \in [Callers -> {"none", "ok", "failed"}]
    /\ ncalls \in 0 .. MaxCalls
    /\ ncloses \in 0 .. MaxCloses
    /\ closePc \in {"idle", "module"}
    /\ ctor \in {"start", "ok", "failed"}
    /\ wapcModule \in {"none", "loaded"}
    /\ instantiated \subseteq Instances

\* C1: no two calls hold the same pool instance at the same time.
C1_Exclusive ==
    \A c1, c2 \in Callers :
        (c1 # c2 /\ Holding(c1) /\ Holding(c2))
            => wapcInstance[c1] # wapcInstance[c2]

\* Two calls hold instances at the same time.
C1_Witness ==
    \E c1, c2 \in Callers : c1 # c2 /\ Holding(c1) /\ Holding(c2)

\* C2: a call that acquired an instance makes exactly one Return call for it,
\* whether the guest execution succeeded or failed, and makes it before it
\* returns to its caller: the Return call takes the instance out of the
\* checked-out set (back into the available set of an open pool), no call
\* makes a second one, and no call is done without it.
C2_ReturnedExactlyOnce ==
    /\ [](\A c \in Callers :
            /\ returns[c] <= 1
            /\ Holding(c) => returns[c] = 0
            /\ (pc[c] = "done" /\ Acquired(c)) => returns[c] = 1)
    /\ [][\A c \in Callers :
            (Holding(c) /\ pc'[c] = "done") =>
                /\ returns'[c] = 1
                /\ wapcInstance[c] \in wapcPool.out
                /\ wapcInstance[c] \notin wapcPool'.out
                /\ ~wapcPool.closed => wapcInstance[c] \in wapcPool'.avail]_vars

\* A call whose guest execution failed is done, and so is one whose guest
\* execution succeeded.
C2_Witness ==
    \E c1, c2 \in Callers :
        /\ pc[c1] = "done" /\ guest[c1] = "failed" /\ returns[c1] = 1
        /\ pc[c2] = "done" /\ guest[c2] = "ok" /\ returns[c2] = 1

\* C3: a call whose guest execution failed (the operation unknown to the guest
\* included) hands its caller the invocation error for that operation.
C3_InvocationErrorReturned ==
    \A c \in Callers :
        (pc[c] = "done" /\ guest[c] = "failed")
            => err[c] = InvocationError(operation[c])

\* C4: when the Return call fails, the call still hands back what the guest
\* execution determined: the result and no error, or the invocation error.
C4_ReleaseFailureKeepsOutcome ==
    \A c \in Callers :
        (pc[c] = "done" /\ returnErr[c] # Nil) =>
            /\ guest[c] = "ok" => (result[c] = payload[c] /\ err[c] = Nil)
            /\ guest[c] = "failed" => err[c] = InvocationError(operation[c])

\* C5: a completed call hands back either a result and a nil error or a nil
\* result and an error.
C5_ResultXorError ==
    \A c \in Callers :
        pc[c] = "done" =>
            \/ (result[c] # Nil /\ err[c] = Nil)
            \/ (result[c] = Nil /\ err[c] # Nil)

\* C6: available plus checked out is at most the capacity, and a live (not
\* torn down) instance is either available or checked out to exactly one
\* caller, never both and never neither.
C6_PoolInvariant ==
    /\ Cardinality(wapcPool.avail) + Cardinality(wapcPool.out) <= Capacity
    /\ wapcPool.avail \cap wapcPool.out = {}
    /\ \A i \in instantiated :
          wapcPool.torn[i] = 0 => i \in wapcPool.avail \cup wapcPool.out
    /\ \A i \in wapcPool.out :
          Cardinality({c \in Callers : Holding(c) /\ wapcInstance[c] = i}) = 1
    /\ \A c \in Callers : Holding(c) => wapcInstance[c] \in wapcPool.out
    /\ \A i \in wapcPool.avail :
          \A c \in Callers : ~(Holding(c) /\ wapcInstance[c] = i)

\* Some instances are checked out, one is available, and one has been
\* through a full checkout and return.
C6_Witness ==
    /\ wapcPool.out # {}
    /\ wapcPool.avail # {}
    /\ \E c \in Callers : pc[c] = "done" /\ returns[c] = 1

\* C7: a call in Get leaves Get, with an instance or with an error, even if no
\* guest execution ever finishes; on an open pool it fails only when no
\* instance is available, and then with the timeout error.
C7_AcquisitionEnds ==
    /\ \A c \in Callers : (pc[c] = "get") ~> (pc[c] \in {"invoke", "done"})
    /\ [][\A c \in Callers :
            (pc[c] = "get" /\ pc'[c] = "done" /\ ~wapcPool.closed) =>
                /\ wapcPool.avail = {}
                /\ Cardinality(wapcPool.out) = Capacity
                /\ err'[c] = TimeoutError
                /\ result'[c] = Nil]_vars

\* A call has timed out while every instance is held by a guest execution
\* that has not finished.
C7_Witness ==
    \E c \in Callers :
        /\ pc[c] = "done" /\ err[c] = TimeoutError
        /\ Cardinality({d \in Callers : pc[d] = "invoke"}) = Capacity

\* C8: a call that starts after a Close has completed gets no instance, runs
\* no guest operation, can always leave Get, and ends with the ClosedError.
C8_ClosedAfterClose ==
    \A c \in Callers :
        afterClose[c] =>
            /\ pc[c] \in {"get", "done"}
            /\ wapcInstance[c] = NoInstance
            /\ guest[c] = "none"
            /\ returns[c] = 0
            /\ pc[c] = "get" => ENABLED GetFail(c)
            /\ pc[c] = "done" => (err[c] = ClosedError /\ result[c] = Nil)

\* A call that started after Close has ended.
C8_Witness ==
    \E c \in Callers : afterClose[c] /\ pc[c] = "done" /\ err[c] = ClosedError

\* C9: the module is not closed while a checked-out instance is still live.
C9_ModuleOutlivesInstances ==
    moduleClosed > 0 =>
        \A i \in wapcPool.out : wapcPool.torn[i] > 0

\* C10: the module is closed only on a pool that is already closed, and the
\* pool stays closed.
C10_PoolBeforeModule ==
    /\ [](moduleClosed > 0 => wapcPool.closed)
    /\ [][moduleClosed' # moduleClosed =>
             (wapcPool.closed /\ wapcPool'.closed)]_vars
    /\ [][wapcPool.closed => wapcPool'.closed]_vars

\* Close has run to its end.
C10_Witness == moduleClosed > 0 /\ wapcPool.closed /\ closePc = "idle"

\* C11: after a failed construction no bridge is returned and nothing that
\* the attempt created stays allocated: a module that was loaded has been
\* closed and every instance that was created has been released.
C11_NoLeakOnFailedConstruction ==
    ctor = "failed" =>
        /\ ctorErr # Nil
        /\ \A c \in Callers : pc[c] = "idle"
        /\ wapcModule = "loaded" => moduleClosed > 0
        /\ \A i \in instantiated : wapcPool.torn[i] > 0
        /\ wapcPool.avail = {} /\ wapcPool.out = {}

\* C12: with more calls than instances and guest operations that finish
\* within the acquisition window, a call that finds an instance available can
\* proceed at once, a call that finds none waits, and every call ends with
\* its result and no error.
C12_AllCallsSucceed ==
    /\ \A c \in Callers :
          (pc[c] = "get") ~>
              (pc[c] = "done" /\ result[c] = payload[c] /\ err[c] = Nil)
    /\ [](\A c \in Callers :
            /\ (pc[c] = "get" /\ wapcPool.avail # {}) => ENABLED GetInstance(c)
            /\ (pc[c] = "get" /\ wapcPool.avail = {}) => ~ENABLED GetInstance(c)
            /\ pc[c] = "done" => (result[c] = payload[c] /\ err[c] = Nil))

\* One call more than there are instances has been made and all have ended
\* with their result.
C12_Witness ==
    /\ ncalls > Capacity
    /\ \A c \in Callers :
          pc[c] = "done" /\ result[c] = "ping" /\ err[c] = Nil /\ returns[c] = 1

\* The callers whose guest execution is in progress.
Executing == {c \in Callers : pc[c] = "invoke"}

\* C13: at most Capacity guest executions are in progress at the same time,
\* and nothing but the checkout of an instance holds a call back: a call in
\* Get can take an available instance, and a call that has one can run its
\* guest, whatever the other calls are doing.
C13_AtMostCapacityExecutions ==
    /\ Cardinality(Executing) <= Capacity
    /\ \A c \in Callers :
          /\ (pc[c] = "get" /\ PoolAcquirable(wapcPool)) => ENABLED GetInstance(c)
          /\ pc[c] = "invoke" => ENABLED InvokeGuest(c)

\* As many guest executions as there are instances are in progress at once,
\* and a further call is waiting.
C13_Witness ==
    /\ Cardinality(Executing) = Capacity
    /\ \E c \in Callers : pc[c] = "get"

\* C14: once a Close has completed, a further Close changes nothing: the pool
\* is closed, the module has been closed once, and no instance has been torn
\* down more than once.
C14_CloseIdempotent ==
    ncloses >= 1 =>
        /\ wapcPool.closed
        /\ wapcPool.avail = {}
        /\ moduleClosed = 1
        /\ \A i \in Instances : wapcPool.torn[i] <= 1

\* C15: closing the pool tears down the instances available at that moment
\* and leaves the checked-out ones alone; a checked-out instance released to
\* the closed pool is torn down instead of put back; a closed pool never has
\* an available instance; no instance is torn down more than once.
C15_TeardownOnClose ==
    /\ [](wapcPool.closed => wapcPool.avail = {})
    /\ [](\A i \in Instances : wapcPool.torn[i] <= 1)
    /\ [][(~wapcPool.closed /\ wapcPool'.closed) =>
             /\ \A i \in wapcPool.avail : wapcPool'.torn[i] = wapcPool.torn[i] + 1
             /\ \A i \in wapcPool.out :
                   wapcPool'.torn[i] = wapcPool.torn[i] /\ i \in wapcPool'.out]_vars
    /\ [][\A c \in Callers :
             (pc[c] = "defer" /\ pc'[c] = "done" /\ wapcPool.closed) =>
                 /\ wapcPool.torn[wapcInstance[c]] = 0
                 /\ wapcPool'.torn[wapcInstance[c]] = 1
                 /\ wapcInstance[c] \notin wapcPool'.avail \cup wapcPool'.out]_vars

\* The pool was closed with an instance checked out, the call holding it has
\* released it since, and every instance is torn down.
C15_Witness ==
    /\ wapcPool.closed
    /\ \E c \in Callers : pc[c] = "done" /\ returnErr[c] = ClosedError
    /\ \A i \in Instances : wapcPool.torn[i] = 1

\* C17: with callers that call again and again and release their instance
\* after finite use, no caller stays in Get forever: its wait ends, with an
\* instance or, once the window has passed, with the timeout error.
C17_NoWaiterBlockedForever ==
    \A c \in Callers : []<>(pc[c] # "get")

\* A caller waits on a dry pool after more calls have been made than
\* MaxCalls, so that some caller has come back and taken an instance again.
C17_Witness ==
    /\ ncalls > MaxCalls
    /\ wapcPool.avail = {}
    /\ \E c \in Callers : pc[c] = "get"

\* C18: a call whose Get fails ends there: nil result, the error of Get
\* (timeout or closed pool), no guest execution, no Return call, and the pool
\* as it was.
C18_FailedGetChangesNothing ==
    [][\A c \in Callers :
          (pc[c] = "get" /\ pc'[c] = "done") =>
              /\ result'[c] = Nil
              /\ err'[c] = (IF wapcPool.closed THEN ClosedError ELSE TimeoutError)
              /\ guest'[c] = "none"
              /\ returns'[c] = 0
              /\ returnErr'[c] = Nil
              /\ wapcInstance'[c] = NoInstance
              /\ wapcPool' = wapcPool]_vars

\* A call has ended on a failed Get, having made no Return call and run no
\* guest, and the pool is as dry as it found it.
C18_Witness ==
    /\ wapcPool.avail = {}
    /\ wapcPool.out = Instances
    /\ \E c \in Callers :
          /\ pc[c] = "done" /\ err[c] = TimeoutError /\ result[c] = Nil
          /\ returns[c] = 0 /\ guest[c] = "none"

\* No call is in flight.
Quiescent == \A c \in Callers : pc[c] \in {"idle", "done"}

\* C19: on a bridge that has been built and on which Close has not been
\* called, whenever no call is in flight every instance is available and
\* none is checked out or torn down.
C19_AllBackWhenQuiescent ==
    (ctor = "ok" /\ ncloses = 0 /\ closePc = "idle" /\ Quiescent) =>
        /\ wapcPool.avail = Instances
        /\ wapcPool.out = {}
        /\ \A i \in Instances : wapcPool.torn[i] = 0

\* All the calls have been made, none is in flight, and among them one has
\* timed out, one has failed in the guest and one has succeeded.
C19_Witness ==
    /\ ctor = "ok" /\ ncloses = 0 /\ closePc = "idle" /\ Quiescent
    /\ ncalls = MaxCalls
    /\ \E c1, c2, c3 \in Callers :
          /\ pc[c1] = "done" /\ guest[c1] = "none"
          /\ pc[c2] = "done" /\ guest[c2] = "failed"
          /\ pc[c3] = "done" /\ guest[c3] = "ok"

====
